---- MODULE Spec2Model ----
(***************************************************************************)
(* Benchmark result aggregation and comparison of the HLL plotting         *)
(* scripts: plot_experiment_2.py (group-by summaries, join, derived        *)
(* metrics), plot_experiment_1.py and plot_results.py                      *)
(* (compute_scaling_summary, load_data, main).                             *)
(*                                                                         *)
(* Numbers are exact rationals with the IEEE-754 special values the        *)
(* pandas/numpy float columns produce (NaN, +inf, -inf); rounding of       *)
(* binary floating point is not modelled.                                  *)
(***************************************************************************)
EXTENDS Integers, Sequences, FiniteSets, TLC

(***************************************************************************)
(* Bounds of the model                                                     *)
(***************************************************************************)
MaxUnionRecs == 2
MaxExactRecs == 2
MaxHllRecs == 2

(***************************************************************************)
(* float64 values: finite rationals n/d in lowest terms, NaN, +/-inf       *)
(***************************************************************************)
Abs(x) == IF x < 0 THEN -x ELSE x

RECURSIVE Gcd(_, _)
Gcd(a, b) == IF b = 0 THEN a ELSE Gcd(b, a % b)

Fin(n, d) ==
    LET g == Gcd(Abs(n), Abs(d))
        s == IF d < 0 THEN -1 ELSE 1
    IN  [k |-> "fin", n |-> (s * n) \div g, d |-> (s * d) \div g]

Num(n) == [k |-> "fin", n |-> n, d |-> 1]
NaN == [k |-> "nan", n |-> 0, d |-> 0]
Inf == [k |-> "inf", n |-> 1, d |-> 0]
NegInf == [k |-> "inf", n |-> -1, d |-> 0]

IsFin(x) == x.k = "fin"
IsNaN(x) == x.k = "nan"
IsInf(x) == x.k = "inf"
Sign(x) == IF x.n > 0 THEN 1 ELSE IF x.n < 0 THEN -1 ELSE 0

\* float subtraction  a - b
FSub(a, b) ==
    IF IsNaN(a) \/ IsNaN(b) THEN NaN
    ELSE IF IsInf(a) /\ IsInf(b) THEN (IF a.n = b.n THEN NaN ELSE a)
    ELSE IF IsInf(a) THEN a
    ELSE IF IsInf(b) THEN (IF b.n > 0 THEN NegInf ELSE Inf)
    ELSE Fin(a.n * b.d - b.n * a.d, a.d * b.d)

\* abs(a)
FAbs(a) ==
    IF IsNaN(a) THEN NaN
    ELSE IF IsInf(a) THEN Inf
    ELSE [k |-> "fin", n |-> Abs(a.n), d |-> a.d]

\* float multiplication  a * b
FMul(a, b) ==
    IF IsNaN(a) \/ IsNaN(b) THEN NaN
    ELSE IF IsInf(a) \/ IsInf(b)
         THEN (IF Sign(a) * Sign(b) = 0 THEN NaN
               ELSE IF Sign(a) * Sign(b) > 0 THEN Inf ELSE NegInf)
    ELSE Fin(a.n * b.n, a.d * b.d)

\* float (numpy) true division  a / b : x/0 is +/-inf, 0/0 is NaN, no exception
FDiv(a, b) ==
    IF IsNaN(a) \/ IsNaN(b) THEN NaN
    ELSE IF IsInf(a) /\ IsInf(b) THEN NaN
    ELSE IF IsInf(a) THEN (IF Sign(b) < 0 THEN (IF a.n > 0 THEN NegInf ELSE Inf) ELSE a)
    ELSE IF IsInf(b) THEN Num(0)
    ELSE IF b.n = 0
         THEN (IF a.n = 0 THEN NaN ELSE IF a.n > 0 THEN Inf ELSE NegInf)
    ELSE Fin(a.n * b.d, a.d * b.n)

\* sqrt of a non-negative finite value, kept symbolic: Sqrt(x) = Sqrt(y) iff x = y
Sqrt(a) == IF IsFin(a) THEN [k |-> "sqrt", n |-> a.n, d |-> a.d] ELSE a

(***************************************************************************)
(* pandas Series reductions over a sequence of integer cells               *)
(***************************************************************************)
RECURSIVE SumSeq(_)
SumSeq(s) == IF s = <<>> THEN 0 ELSE Head(s) + SumSeq(Tail(s))

RECURSIVE SumSqSeq(_)
SumSqSeq(s) == IF s = <<>> THEN 0 ELSE Head(s) * Head(s) + SumSqSeq(Tail(s))

RECURSIVE MaxSeq(_)
MaxSeq(s) ==
    IF Len(s) = 1 THEN Head(s)
    ELSE LET m == MaxSeq(Tail(s)) IN IF Head(s) > m THEN Head(s) ELSE m

Column(rows, name) == [i \in DOMAIN rows |-> rows[i][name]]

\* faulty variant of Mean: the middle of the first and the last value
MeanOfEnds(s) == IF Len(s) = 0 THEN NaN ELSE Fin(s[1] + s[Len(s)], 2)

\* Series.mean(): NaN for an empty series
Mean(s) == IF Len(s) = 0 THEN NaN ELSE Fin(SumSeq(s), Len(s))

\* faulty variant of Std: population standard deviation (ddof = 0)
StdPopulation(s) ==
    IF Len(s) = 0 THEN NaN
    ELSE Sqrt(Fin(Len(s) * SumSqSeq(s) - SumSeq(s) * SumSeq(s), Len(s) * Len(s)))

\* Series.std(): sample standard deviation (ddof = 1), NaN for fewer than 2 values
Std(s) ==
    IF Len(s) < 2 THEN NaN
    ELSE Sqrt(Fin(Len(s) * SumSqSeq(s) - SumSeq(s) * SumSeq(s),
                  Len(s) * (Len(s) - 1)))

\* Series.max() of a non-empty series
Max(s) == Num(MaxSeq(s))

(***************************************************************************)
(* DataFrame.groupby(by): groups in ascending order of the key tuple       *)
(* (sort=True is the default), members in their order in the frame         *)
(***************************************************************************)
Key(r, by) == [i \in 1..Len(by) |-> r[by[i]]]

RECURSIVE LexLess(_, _)
LexLess(a, b) ==
    IF a = <<>> \/ b = <<>> THEN (a = <<>> /\ b # <<>>)
    ELSE IF Head(a) # Head(b) THEN Head(a) < Head(b)
    ELSE LexLess(Tail(a), Tail(b))

RECURSIVE SortedKeys(_)
SortedKeys(S) ==
    IF S = {} THEN <<>>
    ELSE LET m == CHOOSE x \in S : \A y \in S \ {x} : LexLess(x, y)
         IN  <<m>> \o SortedKeys(S \ {m})

KeysOf(rows, by) == {Key(rows[i], by) : i \in DOMAIN rows}

\* keys of the frame in order of first appearance
RECURSIVE FirstSeen(_, _)
FirstSeen(rows, by) ==
    IF rows = <<>> THEN <<>>
    ELSE LET k == Key(Head(rows), by)
         IN  <<k>> \o FirstSeen(SelectSeq(Tail(rows), LAMBDA r : Key(r, by) # k), by)

\* faulty variants of GroupKeys: one group per row (no de-duplication); sort=False
GroupKeysPerRow(rows, by) == [i \in DOMAIN rows |-> Key(rows[i], by)]
GroupKeysUnsorted(rows, by) == FirstSeen(rows, by)

GroupKeys(rows, by) == SortedKeys(KeysOf(rows, by))

Members(rows, by, key) == SelectSeq(rows, LAMBDA r : Key(r, by) = key)

(***************************************************************************)
(* plot_experiment_2.py: summaries                                         *)
(***************************************************************************)
\* union_df.groupby(['precision', 'num_days'], as_index=False).agg(...)
UnionStats(df) ==
    LET by == <<"precision", "num_days">>
        keys == GroupKeys(df, by)
    IN  [g \in DOMAIN keys |->
            LET m == Members(df, by, keys[g])
            IN  [precision |-> keys[g][1],
                 num_days |-> keys[g][2],
                 avg_estimate |-> Mean(Column(m, "estimated_count")),
                 union_time_ms |-> Mean(Column(m, "query_time_ms")),
                 union_stddev_ms |-> Std(Column(m, "query_time_ms")),
                 total_sketch_bytes |-> Max(Column(m, "total_sketch_size_bytes"))]]

\* faulty variant of ExactStats: groupby(['num_days', 'exact_count']), one row for
\* every count measured on a day
ExactStatsByCount(df) ==
    LET by == <<"num_days", "exact_count">>
        keys == GroupKeys(df, by)
    IN  [g \in DOMAIN keys |->
            LET m == Members(df, by, keys[g])
            IN  [num_days |-> keys[g][1],
                 exact_count |-> Mean(Column(m, "exact_count")),
                 exact_time_ms |-> Mean(Column(m, "query_time_ms")),
                 exact_stddev_ms |-> Std(Column(m, "query_time_ms"))]]

\* exact_df.groupby('num_days', as_index=False).agg(...)
ExactStats(df) ==
    LET by == <<"num_days">>
        keys == GroupKeys(df, by)
    IN  [g \in DOMAIN keys |->
            LET m == Members(df, by, keys[g])
            IN  [num_days |-> keys[g][1],
                 exact_count |-> Mean(Column(m, "exact_count")),
                 exact_time_ms |-> Mean(Column(m, "query_time_ms")),
                 exact_stddev_ms |-> Std(Column(m, "query_time_ms"))]]

(***************************************************************************)
(* DataFrame.merge(right, on=...): inner join, no validate= argument.      *)
(* Every pair (left row, right row) with equal key gives one row, left     *)
(* columns first.  Row order: pandas >= 2.2 keeps the order of the left    *)
(* rows; earlier releases emit the rows grouped by join key, keys in       *)
(* order of first appearance in the left frame.  The scripts pin no        *)
(* pandas release, so both orders are outcomes of the same line.           *)
(***************************************************************************)
\* faulty variant of Matches: how='cross', every right row matches
MatchesCross(l, right, on) == right

Matches(l, right, on) == SelectSeq(right, LAMBDA r : Key(r, on) = Key(l, on))

JoinRow(l, r) == l @@ r

RECURSIVE Flatten(_)
Flatten(ss) == IF ss = <<>> THEN <<>> ELSE Head(ss) \o Flatten(Tail(ss))

\* faulty variant of RowsOf: how='left', an unmatched left row is kept with NaN cells
RowsOfLeftJoin(l, right, on) ==
    LET ms == Matches(l, right, on)
    IN  IF ms = <<>>
        THEN <<l @@ [exact_count |-> NaN, exact_time_ms |-> NaN, exact_stddev_ms |-> NaN]>>
        ELSE [j \in DOMAIN ms |-> JoinRow(l, ms[j])]

\* the rows one left row contributes
RowsOf(l, right, on) ==
    LET ms == Matches(l, right, on)
    IN  [j \in DOMAIN ms |-> JoinRow(l, ms[j])]

MergeLeftOrder(left, right, on) ==
    Flatten([i \in DOMAIN left |-> RowsOf(left[i], right, on)])

MergeKeyOrder(left, right, on) ==
    LET ks == FirstSeen(left, on)
    IN  Flatten([g \in DOMAIN ks |->
                    MergeLeftOrder(Members(left, on, ks[g]), right, on)])

Merge(left, right, on, keeps_left_order) ==
    IF keeps_left_order THEN MergeLeftOrder(left, right, on)
    ELSE MergeKeyOrder(left, right, on)

(***************************************************************************)
(* Column arithmetic on a frame: element-wise over the rows                *)
(***************************************************************************)
\* df[name] = values
SetColumn(df, name, values) ==
    [i \in DOMAIN df |-> (name :> values[i]) @@ df[i]]

\* abs(df[a] - df[b])
AbsDiff(df, a, b) == [i \in DOMAIN df |-> FAbs(FSub(df[i][a], df[i][b]))]

\* faulty variant of Ratio: the denominator is taken from the first row for every row
RatioFirstRow(df, a, b) == [i \in DOMAIN df |-> FDiv(df[i][a], df[1][b])]

\* df[a] / df[b]
Ratio(df, a, b) == [i \in DOMAIN df |-> FDiv(df[i][a], df[i][b])]

\* series * c   and   series / c   for a numeric literal c
Times(series, c) == [i \in DOMAIN series |-> FMul(series[i], Num(c))]
Over(series, c) == [i \in DOMAIN series |-> FDiv(series[i], Num(c))]

PctFactor == 100
BytesPerKb == 1024

ErrorAbsolute(df) ==
    SetColumn(df, "error_absolute", AbsDiff(df, "avg_estimate", "exact_count"))
\* faulty variant of ErrorPct: the ratio is not scaled to a percentage
ErrorPctFraction(df) ==
    SetColumn(df, "error_pct", Ratio(df, "error_absolute", "exact_count"))

ErrorPct(df) ==
    SetColumn(df, "error_pct", Times(Ratio(df, "error_absolute", "exact_count"), PctFactor))
SpeedupFactor(df) ==
    SetColumn(df, "speedup_factor", Ratio(df, "exact_time_ms", "union_time_ms"))
\* faulty variant of SketchSizeKb: the kilobytes replace total_sketch_bytes
SketchSizeKbInPlace(df) ==
    SetColumn(df, "total_sketch_bytes", Over(Column(df, "total_sketch_bytes"), BytesPerKb))

SketchSizeKb(df) ==
    SetColumn(df, "sketch_size_kb", Over(Column(df, "total_sketch_bytes"), BytesPerKb))
EfficiencyScore(df) ==
    SetColumn(df, "efficiency_score", Ratio(df, "speedup_factor", "error_pct"))

(***************************************************************************)
(* plot_experiment_1.py / plot_results.py: compute_scaling_summary         *)
(***************************************************************************)
RECURSIVE SortedInts(_)
SortedInts(S) ==
    IF S = {} THEN <<>>
    ELSE LET m == CHOOSE x \in S : \A y \in S : x <= y
         IN  <<m>> \o SortedInts(S \ {m})

\* faulty variant of SortedUnique: a frame without rows gives one placeholder value
SortedUniqueOrZero(df, name) ==
    IF df = <<>> THEN <<0>> ELSE SortedInts({df[i][name] : i \in DOMAIN df})

\* sorted(df[name].unique())
SortedUnique(df, name) == SortedInts({df[i][name] : i \in DOMAIN df})

\* df[df[name] == value]
Where(df, name, value) == SelectSeq(df, LAMBDA r : r[name] = value)

\* the three row[f'hll_p{prec}_...'] assignments of one loop iteration
HllColumns(prec, avg, err, sto) ==
    CASE prec = 10 -> [hll_p10_avg_ms |-> avg, hll_p10_error |-> err, hll_p10_storage |-> sto]
      [] prec = 12 -> [hll_p12_avg_ms |-> avg, hll_p12_error |-> err, hll_p12_storage |-> sto]
      [] prec = 14 -> [hll_p14_avg_ms |-> avg, hll_p14_error |-> err, hll_p14_storage |-> sto]

ScalingPrecisions == <<10, 12, 14>>

\* faulty variant of PrecLoop: the means are taken over the records of every
\* precision
RECURSIVE PrecLoopAllRecords(_, _, _)
PrecLoopAllRecords(row, hll_subset, precs) ==
    IF precs = <<>> THEN row
    ELSE LET cols == HllColumns(Head(precs),
                                Mean(Column(hll_subset, "duration_ms")),
                                Mean(Column(hll_subset, "relative_error")),
                                Mean(Column(hll_subset, "storage_bytes")))
         IN  PrecLoopAllRecords(cols @@ row, hll_subset, Tail(precs))

\* for prec in [10, 12, 14]: ... (plot_experiment_1.py)
RECURSIVE PrecLoop(_, _, _)
PrecLoop(row, hll_subset, precs) ==
    IF precs = <<>> THEN row
    ELSE LET hll_prec == Where(hll_subset, "precision", Head(precs))
             cols == HllColumns(Head(precs),
                                Mean(Column(hll_prec, "duration_ms")),
                                Mean(Column(hll_prec, "relative_error")),
                                Mean(Column(hll_prec, "storage_bytes")))
         IN  PrecLoop(cols @@ row, hll_subset, Tail(precs))

\* one iteration of  for size in sorted(exact_df['dataset_size'].unique())
ScalingRow(exact_df_, hll_df_, size) ==
    LET exact_subset == Where(exact_df_, "dataset_size", size)
        hll_subset == Where(hll_df_, "dataset_size", size)
        row == [dataset_size |-> size,
                distinct_count |-> Mean(Column(exact_subset, "distinct_count")),
                exact_avg_ms |-> Mean(Column(exact_subset, "duration_ms")),
                exact_std_ms |-> Std(Column(exact_subset, "duration_ms"))]
    IN  PrecLoop(row, hll_subset, ScalingPrecisions)

\* plot_experiment_1.compute_scaling_summary
compute_scaling_summary(exact_df_, hll_df_) ==
    LET sizes == SortedUnique(exact_df_, "dataset_size")
    IN  [i \in DOMAIN sizes |-> ScalingRow(exact_df_, hll_df_, sizes[i])]

\* faulty variant of ResultsPrecLoop: the error and storage means are assigned to
\* each other's column
RECURSIVE ResultsPrecLoopSwapped(_, _, _)
ResultsPrecLoopSwapped(row, hll_subset, precs) ==
    IF precs = <<>> THEN row
    ELSE LET hll_prec == Where(hll_subset, "precision", Head(precs))
             cols == HllColumns(Head(precs),
                                Mean(Column(hll_prec, "duration_ms")),
                                Mean(Column(hll_prec, "storage_bytes")),
                                Mean(Column(hll_prec, "relative_error")))
         IN  ResultsPrecLoopSwapped(cols @@ row, hll_subset, Tail(precs))

\* for prec in [10, 12, 14]: ... (plot_results.py)
RECURSIVE ResultsPrecLoop(_, _, _)
ResultsPrecLoop(row, hll_subset, precs) ==
    IF precs = <<>> THEN row
    ELSE LET hll_prec == Where(hll_subset, "precision", Head(precs))
             cols == HllColumns(Head(precs),
                                Mean(Column(hll_prec, "duration_ms")),
                                Mean(Column(hll_prec, "relative_error")),
                                Mean(Column(hll_prec, "storage_bytes")))
         IN  ResultsPrecLoop(cols @@ row, hll_subset, Tail(precs))

ResultsScalingRow(exact_df_, hll_df_, size) ==
    LET exact_subset == Where(exact_df_, "dataset_size", size)
        hll_subset == Where(hll_df_, "dataset_size", size)
        row == [dataset_size |-> size,
                distinct_count |-> Mean(Column(exact_subset, "distinct_count")),
                exact_avg_ms |-> Mean(Column(exact_subset, "duration_ms")),
                exact_std_ms |-> Std(Column(exact_subset, "duration_ms"))]
    IN  ResultsPrecLoop(row, hll_subset, ScalingPrecisions)

\* plot_results.compute_scaling_summary
results_compute_scaling_summary(exact_df_, hll_df_) ==
    LET sizes == SortedUnique(exact_df_, "dataset_size")
    IN  [i \in DOMAIN sizes |-> ResultsScalingRow(exact_df_, hll_df_, sizes[i])]

(***************************************************************************)
(* Columns a frame does not have: df[name], groupby(name) and agg raise    *)
(* KeyError whether or not the frame has rows                              *)
(***************************************************************************)
KeyError(keys) == [type |-> "KeyError", keys |-> keys]

\* the first name of `needed`, in the order the code reads them, that is no column
RECURSIVE FirstMissing(_, _)
FirstMissing(cols, needed) ==
    IF needed = <<>> THEN {}
    ELSE IF Head(needed) \notin cols THEN {Head(needed)}
    ELSE FirstMissing(cols, Tail(needed))

\* df.groupby(by).agg(...): groupby raises for the first key that is no column,
\* then agg raises naming every aggregated column that does not exist
GroupbyAggKeyError(cols, by, measured) ==
    IF FirstMissing(cols, by) # {} THEN FirstMissing(cols, by) ELSE measured \ cols

UnionStatsKeyError(cols) ==
    GroupbyAggKeyError(cols, <<"precision", "num_days">>,
                       {"estimated_count", "query_time_ms", "total_sketch_size_bytes"})
ExactStatsKeyError(cols) ==
    GroupbyAggKeyError(cols, <<"num_days">>, {"exact_count", "query_time_ms"})

\* the columns one iteration of the size loop reads, in order, with their frame
LoopAccesses ==
    <<[df |-> "hll", col |-> "dataset_size"],
      [df |-> "exact", col |-> "distinct_count"], [df |-> "exact", col |-> "duration_ms"],
      [df |-> "hll", col |-> "precision"], [df |-> "hll", col |-> "duration_ms"],
      [df |-> "hll", col |-> "relative_error"], [df |-> "hll", col |-> "storage_bytes"]>>

RECURSIVE FirstMissingAccess(_, _)
FirstMissingAccess(hdr, accesses) ==
    IF accesses = <<>> THEN {}
    ELSE IF Head(accesses).col \notin hdr[Head(accesses).df] THEN {Head(accesses).col}
    ELSE FirstMissingAccess(hdr, Tail(accesses))

\* the key of the KeyError compute_scaling_summary raises, {} if it returns: the
\* loop header reads exact_df['dataset_size']; the body runs only if exact_df
\* has a row
ScalingKeyError(exact_rows, hdr) ==
    IF "dataset_size" \notin hdr.exact THEN {"dataset_size"}
    ELSE IF exact_rows = <<>> THEN {}
    ELSE FirstMissingAccess(hdr, LoopAccesses)

\* the same for plot_results.compute_scaling_summary
ResultsScalingKeyError(exact_rows, hdr) ==
    IF "dataset_size" \notin hdr.exact THEN {"dataset_size"}
    ELSE IF exact_rows = <<>> THEN {}
    ELSE FirstMissingAccess(hdr, LoopAccesses)

(***************************************************************************)
(* State                                                                   *)
(***************************************************************************)
VARIABLES
    script,            \* which script runs
    pc,                \* the statement the script is at
    keeps_left_order,  \* the installed pandas keeps left row order in inner merges
    found,             \* the input files that exist
    union_csv, exact_csv, hll_csv,      \* rows of the input files
    union_df, exact_df, hll_df,         \* frames read from them
    union_stats, exact_stats,           \* plot_experiment_2 summaries
    comparison_df,                      \* plot_experiment_2 joined table
    scaling_df,                         \* result of compute_scaling_summary
    plot_idx,          \* next plot function main() calls
    saved,             \* output files written so far, in order
    comparison_csv,    \* the table written to comparison.csv
    exit_status,       \* {} while running, else {the process exit status}
    header,            \* the column names in the first line of each input file
    raised             \* {} or {the exception that ended the run}

vars == <<script, pc, keeps_left_order, found, union_csv, exact_csv, hll_csv,
          union_df, exact_df, hll_df, union_stats, exact_stats, comparison_df,
          scaling_df, plot_idx, saved, comparison_csv, exit_status, header,
          raised>>

\* a name bound to None (or not bound yet) / bound to a frame with these rows
None == [none |-> TRUE, rows |-> <<>>]
Frame(rows) == [none |-> FALSE, rows |-> rows]

Running == {}

(***************************************************************************)
(* Input files: every sequence of at most Max...Recs rows                  *)
(***************************************************************************)
SeqsUpTo(S, n) == UNION {[1..m -> S] : m \in 0..n}

\* Sample cells.  The measured values offered depend on the key only to keep the
\* number of files small; every combination of zero and non-zero numerator and
\* denominator of the three divisions occurs among the joined rows.
Precisions == {10, 12}
Days == {1, 2}
UnionMeasures(p) ==
    IF p = 10
    THEN {[e |-> 99500, t |-> 49, s |-> 1024], [e |-> 100000, t |-> 0, s |-> 2048]}
    ELSE {[e |-> 100000, t |-> 49, s |-> 4096], [e |-> 0, t |-> 49, s |-> 8192]}
ExactMeasures(d) ==
    IF d = 1
    THEN {[c |-> 100000, t |-> 245], [c |-> 0, t |-> 0]}
    ELSE {[c |-> 100000, t |-> 0], [c |-> 0, t |-> 245]}

UnionRows ==
    UNION {{[precision |-> p, num_days |-> d, estimated_count |-> m.e,
             query_time_ms |-> m.t, total_sketch_size_bytes |-> m.s] :
                d \in Days, m \in UnionMeasures(p)} : p \in Precisions}
ExactRows ==
    UNION {{[num_days |-> d, exact_count |-> m.c, query_time_ms |-> m.t] :
                m \in ExactMeasures(d)} : d \in Days}

Sizes == {1000, 2000}
HllPrecisions == {10, 12, 14, 16}
ScalingExactMeasures(z) ==
    IF z = 1000 THEN {[c |-> 900, t |-> 245], [c |-> 950, t |-> 0]}
    ELSE {[c |-> 1800, t |-> 490]}
HllMeasures(p) ==
    IF p = 10 THEN {[t |-> 49, e |-> 2, s |-> 1024], [t |-> 0, e |-> 3, s |-> 1280]}
    ELSE {[t |-> 98, e |-> 1, s |-> 4096]}

ScalingExactRows ==
    UNION {{[dataset_size |-> z, distinct_count |-> m.c, duration_ms |-> m.t] :
                m \in ScalingExactMeasures(z)} : z \in Sizes}
HllRows ==
    UNION {{[dataset_size |-> z, precision |-> p, duration_ms |-> m.t,
             relative_error |-> m.e, storage_bytes |-> m.s] :
                z \in Sizes, m \in HllMeasures(p)} : p \in HllPrecisions}

ScalingScripts == {"plot_experiment_1", "plot_results"}

\* the columns the scripts read from each file
UnionHeader ==
    {"precision", "num_days", "estimated_count", "query_time_ms", "total_sketch_size_bytes"}
ExactHeader == {"num_days", "exact_count", "query_time_ms"}
ScalingExactHeader == {"dataset_size", "distinct_count", "duration_ms"}
HllHeader == {"dataset_size", "precision", "duration_ms", "relative_error", "storage_bytes"}

InitCommon ==
    /\ union_df = None /\ exact_df = None /\ hll_df = None
    /\ union_stats = None /\ exact_stats = None /\ comparison_df = None
    /\ scaling_df = None /\ comparison_csv = None
    /\ plot_idx = 1
    /\ saved = <<>>
    /\ exit_status = Running
    /\ raised = {}

InitExperiment2 ==
    /\ script = "plot_experiment_2"
    /\ pc = "load"
    /\ keeps_left_order \in BOOLEAN
    /\ found \in SUBSET {"union.csv", "exact.csv"}
    /\ union_csv \in (IF "union.csv" \in found /\ "exact.csv" \in found
                       THEN SeqsUpTo(UnionRows, MaxUnionRecs) ELSE {<<>>})
    /\ exact_csv \in (IF "union.csv" \in found /\ "exact.csv" \in found
                       THEN SeqsUpTo(ExactRows, MaxExactRecs) ELSE {<<>>})
    /\ hll_csv = <<>>
    /\ header = [union |-> UnionHeader, exact |-> ExactHeader, hll |-> {}]
    /\ InitCommon

InitScaling ==
    /\ script \in ScalingScripts
    /\ pc = "main"
    /\ keeps_left_order = TRUE
    /\ found \in SUBSET {"exact.csv", "hll.csv"}
    /\ exact_csv \in (IF "exact.csv" \in found /\ "hll.csv" \in found
                       THEN SeqsUpTo(ScalingExactRows, MaxExactRecs) ELSE {<<>>})
    /\ hll_csv \in (IF "exact.csv" \in found /\ "hll.csv" \in found
                     THEN SeqsUpTo(HllRows, MaxHllRecs) ELSE {<<>>})
    /\ union_csv = <<>>
    /\ header = [union |-> {}, exact |-> ScalingExactHeader, hll |-> HllHeader]
    /\ InitCommon

Init == InitExperiment2 \/ InitScaling

(***************************************************************************)
(* plot_experiment_2.py, statement by statement                            *)
(***************************************************************************)
E2(at) == script = "plot_experiment_2" /\ pc = at

\* try: read_csv(union.csv); read_csv(exact.csv)  except FileNotFoundError: exit(1)
LoadData ==
    /\ E2("load")
    /\ IF "union.csv" \in found /\ "exact.csv" \in found
       THEN /\ union_df' = Frame(union_csv)
            /\ exact_df' = Frame(exact_csv)
            /\ pc' = "union_stats"
            /\ exit_status' = exit_status
       ELSE /\ union_df' = union_df
            /\ exact_df' = exact_df
            /\ pc' = "exited"
            /\ exit_status' = {1}
    /\ UNCHANGED <<script, keeps_left_order, found, header, union_csv, exact_csv, hll_csv,
                   hll_df, union_stats, exact_stats, comparison_df, scaling_df,
                   plot_idx, saved, comparison_csv, raised>>

\* an uncaught exception: traceback, exit status 1
Raise(exception) ==
    /\ pc' = "raised"
    /\ raised' = {exception}
    /\ exit_status' = {1}

AggregateUnion ==
    /\ E2("union_stats")
    /\ IF UnionStatsKeyError(header.union) # {}
       THEN /\ Raise(KeyError(UnionStatsKeyError(header.union)))
            /\ union_stats' = union_stats
       ELSE /\ union_stats' = Frame(UnionStats(union_df.rows))
            /\ pc' = "exact_stats"
            /\ UNCHANGED <<exit_status, raised>>
    /\ UNCHANGED <<script, keeps_left_order, found, header, union_csv, exact_csv, hll_csv,
                   union_df, exact_df, hll_df, exact_stats, comparison_df, scaling_df,
                   plot_idx, saved, comparison_csv>>

AggregateExact ==
    /\ E2("exact_stats")
    /\ IF ExactStatsKeyError(header.exact) # {}
       THEN /\ Raise(KeyError(ExactStatsKeyError(header.exact)))
            /\ exact_stats' = exact_stats
       ELSE /\ exact_stats' = Frame(ExactStats(exact_df.rows))
            /\ pc' = "merge"
            /\ UNCHANGED <<exit_status, raised>>
    /\ UNCHANGED <<script, keeps_left_order, found, header, union_csv, exact_csv, hll_csv,
                   union_df, exact_df, hll_df, union_stats, comparison_df, scaling_df,
                   plot_idx, saved, comparison_csv>>

\* comparison_df = union_stats.merge(exact_stats, on='num_days')
JoinStats ==
    /\ E2("merge")
    /\ comparison_df' = Frame(Merge(union_stats.rows, exact_stats.rows,
                                    <<"num_days">>, keeps_left_order))
    /\ pc' = "error_absolute"
    /\ UNCHANGED <<script, keeps_left_order, found, header, union_csv, exact_csv, hll_csv,
                   union_df, exact_df, hll_df, union_stats, exact_stats, scaling_df,
                   plot_idx, saved, comparison_csv, exit_status, raised>>

\* faulty variant of Derive: comparison_df shares its data with union_stats, the
\* new column shows in both
DeriveOnView(at, table, next) ==
    /\ E2(at)
    /\ comparison_df' = Frame(table)
    /\ union_stats' = Frame(table)
    /\ pc' = next
    /\ UNCHANGED <<script, keeps_left_order, found, header, union_csv, exact_csv, hll_csv,
                   union_df, exact_df, hll_df, exact_stats, scaling_df,
                   plot_idx, saved, comparison_csv, exit_status, raised>>

\* comparison_df[column] = ... : one derived column, then the next statement
Derive(at, table, next) ==
    /\ E2(at)
    /\ comparison_df' = Frame(table)
    /\ pc' = next
    /\ UNCHANGED <<script, keeps_left_order, found, header, union_csv, exact_csv, hll_csv,
                   union_df, exact_df, hll_df, union_stats, exact_stats, scaling_df,
                   plot_idx, saved, comparison_csv, exit_status, raised>>

SetErrorAbsolute ==
    Derive("error_absolute", ErrorAbsolute(comparison_df.rows), "error_pct")
SetErrorPct ==
    Derive("error_pct", ErrorPct(comparison_df.rows), "speedup_factor")
SetSpeedupFactor ==
    Derive("speedup_factor", SpeedupFactor(comparison_df.rows), "sketch_size_kb")
\* faulty variant of SetSketchSizeKb: the table is saved right after this column
SetSketchSizeKbThenSave ==
    Derive("sketch_size_kb", SketchSizeKb(comparison_df.rows), "to_csv")

SetSketchSizeKb ==
    Derive("sketch_size_kb", SketchSizeKb(comparison_df.rows), "efficiency_score")
SetEfficiencyScore ==
    Derive("efficiency_score", EfficiencyScore(comparison_df.rows), "to_csv")

\* faulty variant of SaveComparison: to_csv(..., mode='a') adds to the file of an
\* earlier run
SaveComparisonAppend ==
    /\ E2("to_csv")
    /\ comparison_csv' = Frame(comparison_csv.rows \o comparison_df.rows)
    /\ saved' = Append(saved, "comparison.csv")
    /\ pc' = "plot1"
    /\ UNCHANGED <<script, keeps_left_order, found, header, union_csv, exact_csv, hll_csv,
                   union_df, exact_df, hll_df, union_stats, exact_stats, comparison_df,
                   scaling_df, plot_idx, exit_status, raised>>

\* comparison_df.to_csv(tables_dir / 'comparison.csv', index=False)
SaveComparison ==
    /\ E2("to_csv")
    /\ comparison_csv' = comparison_df
    /\ saved' = Append(saved, "comparison.csv")
    /\ pc' = "plot1"
    /\ UNCHANGED <<script, keeps_left_order, found, header, union_csv, exact_csv, hll_csv,
                   union_df, exact_df, hll_df, union_stats, exact_stats, comparison_df,
                   scaling_df, plot_idx, exit_status, raised>>

\* plt.savefig(...) of the two figures; the drawing itself is not modelled
SaveFigure(at, file, next) ==
    /\ E2(at)
    /\ saved' = Append(saved, file)
    /\ pc' = next
    /\ exit_status' = IF next = "done" THEN {0} ELSE exit_status
    /\ UNCHANGED <<script, keeps_left_order, found, header, union_csv, exact_csv, hll_csv,
                   union_df, exact_df, hll_df, union_stats, exact_stats, comparison_df,
                   scaling_df, plot_idx, comparison_csv, raised>>

SavePerformanceFigure == SaveFigure("plot1", "hll_union_performance.png", "plot2")
SaveTradeoffFigure == SaveFigure("plot2", "precision_tradeoffs.png", "done")

(***************************************************************************)
(* plot_experiment_1.py and plot_results.py: load_data and main            *)
(***************************************************************************)
InScaling(at) == script \in ScalingScripts /\ pc = at

\* the tuple load_data() returns
load_data(which) ==
    IF "exact.csv" \in found /\ "hll.csv" \in found
    THEN [exact_df |-> Frame(exact_csv),
          hll_df |-> Frame(hll_csv),
          scaling_df |-> Frame(IF which = "plot_experiment_1"
                               THEN compute_scaling_summary(exact_csv, hll_csv)
                               ELSE results_compute_scaling_summary(exact_csv, hll_csv))]
    ELSE [exact_df |-> None, hll_df |-> None, scaling_df |-> None]

\* exact_df, hll_df, scaling_df = load_data()
\* the key of the KeyError that leaves load_data (it catches FileNotFoundError
\* only), {} if load_data returns
load_data_KeyError(which) ==
    IF "exact.csv" \in found /\ "hll.csv" \in found
    THEN (IF which = "plot_experiment_1" THEN ScalingKeyError(exact_csv, header)
          ELSE ResultsScalingKeyError(exact_csv, header))
    ELSE {}

CallLoadData ==
    /\ InScaling("main")
    /\ IF load_data_KeyError(script) # {}
       THEN /\ Raise(KeyError(load_data_KeyError(script)))
            /\ UNCHANGED <<exact_df, hll_df, scaling_df>>
       ELSE /\ exact_df' = load_data(script).exact_df
            /\ hll_df' = load_data(script).hll_df
            /\ scaling_df' = load_data(script).scaling_df
            /\ pc' = "check"
            /\ UNCHANGED <<exit_status, raised>>
    /\ UNCHANGED <<script, keeps_left_order, found, header, union_csv, exact_csv, hll_csv,
                   union_df, union_stats, exact_stats, comparison_df,
                   plot_idx, saved, comparison_csv>>

\* faulty variant of CheckData: the message is printed but main does not return
CheckDataNoReturn ==
    /\ InScaling("check")
    /\ pc' = "plots"
    /\ UNCHANGED <<script, keeps_left_order, found, header, union_csv, exact_csv, hll_csv,
                   union_df, exact_df, hll_df, union_stats, exact_stats, comparison_df,
                   scaling_df, plot_idx, saved, comparison_csv, exit_status, raised>>

\* if exact_df is None or hll_df is None: return
CheckData ==
    /\ InScaling("check")
    /\ IF exact_df.none \/ hll_df.none
       THEN pc' = "done" /\ exit_status' = {0}
       ELSE pc' = "plots" /\ exit_status' = exit_status
    /\ UNCHANGED <<script, keeps_left_order, found, header, union_csv, exact_csv, hll_csv,
                   union_df, exact_df, hll_df, union_stats, exact_stats, comparison_df,
                   scaling_df, plot_idx, saved, comparison_csv, raised>>

\* the calls main() makes after the check, in order
Plots(which) ==
    IF which = "plot_experiment_1"
    THEN <<"plot_latency_scaling", "plot_speedup_vs_scale", "plot_error_vs_scale",
           "plot_storage_vs_scale", "plot_accuracy_vs_storage">>
    ELSE <<"plot_scaling_performance", "plot_speedup_vs_scale", "plot_error_vs_scale",
           "plot_storage_vs_scale", "create_summary_table">>

\* what one call does: "skip" (argument is None), "raise" (KeyError: the frame of
\* no rows has no 'dataset_size' column), "print" or "save"
PlotOutcome(name) ==
    IF name = "plot_accuracy_vs_storage"
    THEN (IF hll_df.none THEN "skip" ELSE "save")
    ELSE IF scaling_df.none THEN "skip"
    ELSE IF name = "create_summary_table" THEN "print"
    ELSE IF scaling_df.rows = <<>> THEN "raise"
    ELSE "save"

CallPlot ==
    /\ InScaling("plots")
    /\ LET name == Plots(script)[plot_idx]
           outcome == PlotOutcome(name)
           last == plot_idx = Len(Plots(script))
       IN  /\ saved' = IF outcome = "save" THEN Append(saved, name) ELSE saved
           /\ plot_idx' = IF outcome = "raise" THEN plot_idx ELSE plot_idx + 1
           /\ pc' = IF outcome = "raise" THEN "raised"
                    ELSE IF last THEN "done" ELSE "plots"
           /\ exit_status' = IF outcome = "raise" THEN {1}
                             ELSE IF last THEN {0} ELSE exit_status
           /\ raised' = IF outcome = "raise" THEN {KeyError({"dataset_size"})} ELSE raised
    /\ UNCHANGED <<script, keeps_left_order, found, header, union_csv, exact_csv, hll_csv,
                   union_df, exact_df, hll_df, union_stats, exact_stats, comparison_df,
                   scaling_df, comparison_csv>>

Next ==
    \/ LoadData
    \/ AggregateUnion
    \/ AggregateExact
    \/ JoinStats
    \/ SetErrorAbsolute
    \/ SetErrorPct
    \/ SetSpeedupFactor
    \/ SetSketchSizeKb
    \/ SetEfficiencyScore
    \/ SaveComparison
    \/ SavePerformanceFigure
    \/ SaveTradeoffFigure
    \/ CallLoadData
    \/ CheckData
    \/ CallPlot

Spec == Init /\ [][Next]_vars

(***************************************************************************)
(* The join and the derived metrics on their own: line 59 onwards run on   *)
(* any pair of summary tables, among them exact summaries that repeat a    *)
(* num_days (which the groupby of line 52 never produces).                 *)
(***************************************************************************)
MaxExactStatsRows == 3

\* a union summary with one row per key of K, in groupby order
UnionTable(K) ==
    LET ks == SortedKeys(K)
    IN  UnionStats([i \in DOMAIN ks |->
            [precision |-> ks[i][1], num_days |-> ks[i][2], estimated_count |-> 99500,
             query_time_ms |-> 49, total_sketch_size_bytes |-> 1024]])

ExactSummaryRows == {ExactStats(<<r>>)[1] : r \in ExactRows}

InitJoin ==
    /\ script = "plot_experiment_2"
    /\ pc = "merge"
    /\ keeps_left_order \in BOOLEAN
    /\ found = {"union.csv", "exact.csv"}
    /\ union_csv = <<>> /\ exact_csv = <<>> /\ hll_csv = <<>>
    /\ union_df = None /\ exact_df = None /\ hll_df = None
    /\ union_stats \in {Frame(UnionTable(K)) : K \in SUBSET (Precisions \X Days)}
    /\ exact_stats \in {Frame(t) : t \in SeqsUpTo(ExactSummaryRows, MaxExactStatsRows)}
    /\ comparison_df = None /\ scaling_df = None /\ comparison_csv = None
    /\ plot_idx = 1
    /\ saved = <<>>
    /\ exit_status = Running
    /\ header = [union |-> UnionHeader, exact |-> ExactHeader, hll |-> {}]
    /\ raised = {}

NextJoin ==
    \/ JoinStats
    \/ SetErrorAbsolute
    \/ SetErrorPct
    \/ SetSpeedupFactor
    \/ SetSketchSizeKb
    \/ SetEfficiencyScore

SpecJoin == InitJoin /\ [][NextJoin]_vars

(***************************************************************************)
(* Input files with a column missing: every script on files whose header   *)
(* headers lack at most one of the columns the script reads each (the rows *)
(* then lack that cell).                                                   *)
(***************************************************************************)
MaxSchemaRecs == 1

\* a header with all the columns, or with one of them missing
Headers(full) == {full} \cup {full \ {c} : c \in full}

\* the row read_csv gives for a file with these columns
Restrict(r, cols) == [c \in cols |-> r[c]]

RowsWith(rows, cols) == {Restrict(r, cols) : r \in rows}

InitSchema ==
    /\ script \in {"plot_experiment_2"} \cup ScalingScripts
    /\ pc = IF script = "plot_experiment_2" THEN "load" ELSE "main"
    /\ keeps_left_order = TRUE
    /\ found = IF script = "plot_experiment_2" THEN {"union.csv", "exact.csv"}
               ELSE {"exact.csv", "hll.csv"}
    /\ header \in IF script = "plot_experiment_2"
                  THEN {[union |-> u, exact |-> e, hll |-> {}] :
                            u \in Headers(UnionHeader), e \in Headers(ExactHeader)}
                  ELSE {[union |-> {}, exact |-> e, hll |-> h] :
                            e \in Headers(ScalingExactHeader), h \in Headers(HllHeader)}
    /\ union_csv \in IF script = "plot_experiment_2"
                     THEN SeqsUpTo(RowsWith({r \in UnionRows : r.precision = 10 /\ r.num_days = 1},
                                            header.union), MaxSchemaRecs)
                     ELSE {<<>>}
    /\ exact_csv \in IF script = "plot_experiment_2"
                     THEN SeqsUpTo(RowsWith({r \in ExactRows : r.num_days = 1}, header.exact),
                                   MaxSchemaRecs)
                     ELSE SeqsUpTo(RowsWith({r \in ScalingExactRows : r.dataset_size = 1000},
                                            header.exact), MaxSchemaRecs)
    /\ hll_csv \in IF script = "plot_experiment_2" THEN {<<>>}
                   ELSE SeqsUpTo(RowsWith({r \in HllRows : r.dataset_size = 1000 /\ r.precision = 10},
                                          header.hll), MaxSchemaRecs)
    /\ InitCommon

SpecSchema == InitSchema /\ [][Next]_vars

(***************************************************************************)
(* Groups of up to MaxAggRecs records: every script on one input of up to  *)
(* MaxAggRecs records with the values 10, 20, 30 in its measured columns,  *)
(* the other input holding one record.                                     *)
(***************************************************************************)
MaxAggRecs == 3

AggValues == {10, 20, 30}

AggUnionRows ==
    {[precision |-> 10, num_days |-> d, estimated_count |-> v, query_time_ms |-> v,
      total_sketch_size_bytes |-> 1024] : d \in Days, v \in AggValues}
AggExactRows ==
    {[num_days |-> 1, exact_count |-> v, query_time_ms |-> v] : v \in AggValues}
AggScalingExactRows ==
    {[dataset_size |-> 1000, distinct_count |-> v, duration_ms |-> v] : v \in AggValues}
AggHllRows ==
    {[dataset_size |-> 1000, precision |-> p, duration_ms |-> v, relative_error |-> v,
      storage_bytes |-> 1024] : p \in {10, 12}, v \in AggValues}

\* one input of up to MaxAggRecs records beside a single record of the other input
OneVaried(rowsA, oneA, rowsB, oneB) ==
    {[a |-> fa, b |-> <<oneB>>] : fa \in SeqsUpTo(rowsA, MaxAggRecs)}
    \cup {[a |-> <<oneA>>, b |-> fb] : fb \in SeqsUpTo(rowsB, MaxAggRecs)}

AggUnionOne ==
    [precision |-> 10, num_days |-> 1, estimated_count |-> 20, query_time_ms |-> 20,
     total_sketch_size_bytes |-> 1024]
AggExactOne == [num_days |-> 1, exact_count |-> 20, query_time_ms |-> 20]
AggScalingExactOne == [dataset_size |-> 1000, distinct_count |-> 20, duration_ms |-> 20]
AggHllOne ==
    [dataset_size |-> 1000, precision |-> 10, duration_ms |-> 20, relative_error |-> 20,
     storage_bytes |-> 1024]

InitAgg ==
    /\ script \in {"plot_experiment_2"} \cup ScalingScripts
    /\ pc = IF script = "plot_experiment_2" THEN "load" ELSE "main"
    /\ keeps_left_order = TRUE
    /\ IF script = "plot_experiment_2"
       THEN /\ found = {"union.csv", "exact.csv"}
            /\ header = [union |-> UnionHeader, exact |-> ExactHeader, hll |-> {}]
            /\ \E f \in OneVaried(AggUnionRows, AggUnionOne, AggExactRows, AggExactOne) :
                  union_csv = f.a /\ exact_csv = f.b
            /\ hll_csv = <<>>
       ELSE /\ found = {"exact.csv", "hll.csv"}
            /\ header = [union |-> {}, exact |-> ScalingExactHeader, hll |-> HllHeader]
            /\ \E f \in OneVaried(AggScalingExactRows, AggScalingExactOne, AggHllRows, AggHllOne) :
                  exact_csv = f.a /\ hll_csv = f.b
            /\ union_csv = <<>>
    /\ InitCommon

SpecAgg == InitAgg /\ [][Next]_vars

(***************************************************************************)
(* plot_experiment_2.py run again on the same files by the same            *)
(* installation: the new process starts with no name bound; what the       *)
(* earlier run wrote (comparison.csv) is still on disk, and line 70        *)
(* overwrites it.  The script reads union.csv and exact.csv only.          *)
(***************************************************************************)
Rerun ==
    /\ E2("done")
    /\ pc' = "load"
    /\ union_df' = None /\ exact_df' = None
    /\ union_stats' = None /\ exact_stats' = None /\ comparison_df' = None
    /\ saved' = <<>>
    /\ exit_status' = Running
    /\ UNCHANGED <<script, keeps_left_order, found, header, union_csv, exact_csv, hll_csv,
                   hll_df, scaling_df, plot_idx, comparison_csv, raised>>

NextRerun ==
    \/ LoadData
    \/ AggregateUnion
    \/ AggregateExact
    \/ JoinStats
    \/ SetErrorAbsolute
    \/ SetErrorPct
    \/ SetSpeedupFactor
    \/ SetSketchSizeKb
    \/ SetEfficiencyScore
    \/ SaveComparison
    \/ SavePerformanceFigure
    \/ SaveTradeoffFigure
    \/ Rerun

SpecRerun == InitExperiment2 /\ [][NextRerun]_vars

(***************************************************************************)
(* Properties                                                              *)
(***************************************************************************)
UnionAggregated == script = "plot_experiment_2" /\ ~union_stats.none
ExactAggregated == script = "plot_experiment_2" /\ ~exact_stats.none
Joined == script = "plot_experiment_2" /\ ~comparison_df.none

\* C1: the group-by summaries hold exactly one row for every distinct key tuple
\* of their input ((precision, num_days) of union_df, num_days of exact_df) and
\* no row whose key tuple no input record carries.
C1_GroupingCompleteness ==
    /\ UnionAggregated =>
        /\ \A i \in DOMAIN union_df.rows :
              Cardinality({j \in DOMAIN union_stats.rows :
                  /\ union_stats.rows[j].precision = union_df.rows[i].precision
                  /\ union_stats.rows[j].num_days = union_df.rows[i].num_days}) = 1
        /\ \A j \in DOMAIN union_stats.rows : \E i \in DOMAIN union_df.rows :
              /\ union_stats.rows[j].precision = union_df.rows[i].precision
              /\ union_stats.rows[j].num_days = union_df.rows[i].num_days
    /\ ExactAggregated =>
        /\ \A i \in DOMAIN exact_df.rows :
              Cardinality({j \in DOMAIN exact_stats.rows :
                  exact_stats.rows[j].num_days = exact_df.rows[i].num_days}) = 1
        /\ \A j \in DOMAIN exact_stats.rows : \E i \in DOMAIN exact_df.rows :
              exact_stats.rows[j].num_days = exact_df.rows[i].num_days

\* two union records share a key (one summary row), two exact records do not
C1_Witness ==
    /\ UnionAggregated /\ ExactAggregated
    /\ Len(union_df.rows) = 2 /\ Len(union_stats.rows) = 1
    /\ Len(exact_df.rows) = 2 /\ Len(exact_stats.rows) = 2

UnionDays == {union_stats.rows[i].num_days : i \in DOMAIN union_stats.rows}
ExactDays == {exact_stats.rows[i].num_days : i \in DOMAIN exact_stats.rows}

\* C2: every row of comparison_df carries a num_days that occurs in union_stats
\* and in exact_stats; a num_days of only one summary is in no row.
C2_InnerJoinKeys ==
    Joined =>
        /\ \A i \in DOMAIN comparison_df.rows :
              comparison_df.rows[i].num_days \in UnionDays \cap ExactDays
        /\ \A d \in (UnionDays \cup ExactDays) \ (UnionDays \cap ExactDays) :
              \A i \in DOMAIN comparison_df.rows : comparison_df.rows[i].num_days # d

\* a union summary row without exact counterpart was dropped, another row joined
C2_Witness ==
    /\ Joined
    /\ comparison_df.rows # <<>>
    /\ UnionDays \ ExactDays # {}

HasMatch(u) == \E j \in DOMAIN exact_stats.rows : exact_stats.rows[j].num_days = u.num_days

Summarised == script \in ScalingScripts /\ ~scaling_df.none

\* C3: every row of compute_scaling_summary's result has a dataset_size that
\* records of exact_df and records of hll_df carry; a dataset_size of only one of
\* the two inputs gives no row.
C3_ScalingRowsInBoth ==
    Summarised =>
        \A i \in DOMAIN scaling_df.rows :
            /\ \E j \in DOMAIN exact_df.rows :
                  exact_df.rows[j].dataset_size = scaling_df.rows[i].dataset_size
            /\ \E j \in DOMAIN hll_df.rows :
                  hll_df.rows[j].dataset_size = scaling_df.rows[i].dataset_size

\* C4: a union summary row with a matching exact summary row gives exactly one
\* comparison row, one without match gives none, so comparison_df has as many rows
\* as union_stats has matched rows.
C4_OneRowPerMatch ==
    Joined =>
        /\ \A i \in DOMAIN union_stats.rows :
              Cardinality({j \in DOMAIN comparison_df.rows :
                  /\ comparison_df.rows[j].precision = union_stats.rows[i].precision
                  /\ comparison_df.rows[j].num_days = union_stats.rows[i].num_days})
                = IF HasMatch(union_stats.rows[i]) THEN 1 ELSE 0
        /\ Len(comparison_df.rows)
             = Cardinality({i \in DOMAIN union_stats.rows : HasMatch(union_stats.rows[i])})

\* one union summary row matched, the other one was dropped
C4_Witness ==
    /\ Joined
    /\ Len(union_stats.rows) = 2 /\ Len(comparison_df.rows) = 1
    /\ Len(exact_stats.rows) = 1

\* all five derived columns of comparison_df are assigned
Derived ==
    /\ script = "plot_experiment_2"
    /\ pc \in {"to_csv", "plot1", "plot2", "done"}

\* C6: in a comparison row with non-zero denominators (exact_count, union_time_ms,
\* error_pct), error_absolute = |avg_estimate - exact_count|,
\* error_pct = error_absolute / exact_count * 100,
\* speedup_factor = exact_time_ms / union_time_ms and
\* efficiency_score = speedup_factor / error_pct, all from that row's own values;
\* 245 ms against 49 ms is a speedup of 5, 99500 against 100000 is an absolute
\* error of 500 and 0.5 per cent.
C6_DerivedMetrics ==
    Derived =>
        \A i \in DOMAIN comparison_df.rows :
            LET r == comparison_df.rows[i]
                est == r.avg_estimate
                cnt == r.exact_count
                et == r.exact_time_ms
                ut == r.union_time_ms
            IN  (cnt.n # 0 /\ ut.n # 0 /\ est # cnt) =>
                  /\ r.error_absolute = Fin(Abs(est.n * cnt.d - cnt.n * est.d), est.d * cnt.d)
                  /\ r.error_pct = Fin(100 * r.error_absolute.n * cnt.d,
                                       r.error_absolute.d * cnt.n)
                  /\ r.speedup_factor = Fin(et.n * ut.d, et.d * ut.n)
                  /\ r.efficiency_score = Fin(r.speedup_factor.n * r.error_pct.d,
                                              r.speedup_factor.d * r.error_pct.n)
                  /\ (et = Num(245) /\ ut = Num(49)) => r.speedup_factor = Num(5)
                  /\ (cnt = Num(100000) /\ est = Num(99500)) =>
                        /\ r.error_absolute = Num(500)
                        /\ r.error_pct = [k |-> "fin", n |-> 1, d |-> 2]

\* the row of the example: speedup 5, error 500 and 0.5 per cent, efficiency 10
C6_Witness ==
    /\ Derived
    /\ \E i \in DOMAIN comparison_df.rows :
          LET r == comparison_df.rows[i]
          IN  /\ r.exact_time_ms = Num(245) /\ r.union_time_ms = Num(49)
              /\ r.exact_count = Num(100000) /\ r.avg_estimate = Num(99500)
              /\ r.speedup_factor = Num(5)
              /\ r.error_absolute = Num(500)
              /\ r.efficiency_score = Num(10)

\* the values the three divisions gave where their denominator is zero
ZeroDenominatorValues ==
    LET t == comparison_df.rows
    IN  {t[i].error_pct : i \in {j \in DOMAIN t : t[j].exact_count = Num(0)}}
        \cup {t[i].speedup_factor : i \in {j \in DOMAIN t : t[j].union_time_ms = Num(0)}}
        \cup {t[i].efficiency_score : i \in {j \in DOMAIN t : t[j].error_pct = Num(0)}}

\* C7: wherever the denominator of error_pct, speedup_factor or efficiency_score
\* is zero the derived field holds one and the same sentinel, whatever the
\* numerator.
C7_OneSentinel == Derived => Cardinality(ZeroDenominatorValues) <= 1

Degenerate(r) ==
    r.exact_count = Num(0) \/ r.union_time_ms = Num(0) \/ r.avg_estimate = r.exact_count

JoinedColumns ==
    {"precision", "num_days", "avg_estimate", "union_time_ms", "union_stddev_ms",
     "total_sketch_bytes", "exact_count", "exact_time_ms", "exact_stddev_ms"}

\* lines 61-67 applied to a joined table
AllDerived(t) == EfficiencyScore(SketchSizeKb(SpeedupFactor(ErrorPct(ErrorAbsolute(t)))))

\* C8: the derived-metric statements run to the end without an exception also
\* when a row has a zero denominator, and the rows without zero denominator hold
\* what they hold when the rows with one are left out of the joined table.
C8_DegenerateRowContained ==
    /\ (script = "plot_experiment_2" /\ pc \in {"error_pct", "speedup_factor",
             "sketch_size_kb", "efficiency_score", "to_csv"})
         => (exit_status = Running /\ ~comparison_df.none)
    /\ Derived =>
         LET t == comparison_df.rows
             joined == [i \in DOMAIN t |-> [c \in JoinedColumns |-> t[i][c]]]
         IN  SelectSeq(t, LAMBDA r : ~Degenerate(r))
               = AllDerived(SelectSeq(joined, LAMBDA r : ~Degenerate(r)))

\* a row with union_time_ms = 0 beside a row with a finite speedup and efficiency
C8_Witness ==
    /\ Derived
    /\ \E i, j \in DOMAIN comparison_df.rows :
          /\ comparison_df.rows[i].union_time_ms = Num(0)
          /\ ~IsFin(comparison_df.rows[i].speedup_factor)
          /\ ~Degenerate(comparison_df.rows[j])
          /\ IsFin(comparison_df.rows[j].speedup_factor)
          /\ IsFin(comparison_df.rows[j].efficiency_score)

\* some union summary row has more than one exact summary row with its num_days
AmbiguousJoin ==
    \E u \in DOMAIN union_stats.rows : \E i, j \in DOMAIN exact_stats.rows :
        /\ i # j
        /\ exact_stats.rows[i].num_days = union_stats.rows[u].num_days
        /\ exact_stats.rows[j].num_days = union_stats.rows[u].num_days

ExactStatsGrouped ==
    \A i, j \in DOMAIN exact_stats.rows :
        i < j => exact_stats.rows[i].num_days < exact_stats.rows[j].num_days

UnionColumns ==
    {"precision", "num_days", "avg_estimate", "union_time_ms", "union_stddev_ms",
     "total_sketch_bytes"}

\* C9: comparison_df is union_stats with the unmatched rows removed: the rows
\* that remain keep the relative order they have in union_stats.
C9_LeftOrderKept ==
    (Joined /\ ~union_stats.none /\ ~exact_stats.none /\ ExactStatsGrouped) =>
        [i \in DOMAIN comparison_df.rows |->
            [c \in UnionColumns |-> comparison_df.rows[i][c]]]
          = SelectSeq(union_stats.rows, HasMatch)

IndexPermutations(n) ==
    {f \in [1..n -> 1..n] : \A i, j \in 1..n : i # j => f[i] # f[j]}

\* the rows of a frame in every order
Reorderings(rows) ==
    {[i \in DOMAIN rows |-> rows[f[i]]] : f \in IndexPermutations(Len(rows))}

\* C10: the summaries are in ascending order of their grouping key
\* ((precision, num_days) lexicographically for union_stats, num_days for
\* exact_stats, dataset_size for compute_scaling_summary), and every reordering
\* of the input records gives the same summary.  The reorderings are compared in
\* the state the summary is assigned in (no later statement assigns it); every
\* order of the records of either input is the input of some run, so the
\* reorderings of exact_df and of hll_df are taken one input at a time.
C10_SortedWhateverTheInputOrder ==
    /\ UnionAggregated =>
        /\ \A i, j \in DOMAIN union_stats.rows : i < j =>
              \/ union_stats.rows[i].precision < union_stats.rows[j].precision
              \/ /\ union_stats.rows[i].precision = union_stats.rows[j].precision
                 /\ union_stats.rows[i].num_days < union_stats.rows[j].num_days
        /\ pc = "exact_stats" =>
              \A p \in Reorderings(union_df.rows) : UnionStats(p) = union_stats.rows
    /\ ExactAggregated =>
        /\ \A i, j \in DOMAIN exact_stats.rows : i < j =>
              exact_stats.rows[i].num_days < exact_stats.rows[j].num_days
        /\ pc = "merge" =>
              \A p \in Reorderings(exact_df.rows) : ExactStats(p) = exact_stats.rows
    /\ Summarised =>
        /\ \A i, j \in DOMAIN scaling_df.rows : i < j =>
              scaling_df.rows[i].dataset_size < scaling_df.rows[j].dataset_size
        /\ pc = "check" =>
              /\ \A p \in Reorderings(exact_df.rows) :
                    scaling_df.rows = IF script = "plot_experiment_1"
                                      THEN compute_scaling_summary(p, hll_df.rows)
                                      ELSE results_compute_scaling_summary(p, hll_df.rows)
              /\ \A q \in Reorderings(hll_df.rows) :
                    scaling_df.rows = IF script = "plot_experiment_1"
                                      THEN compute_scaling_summary(exact_df.rows, q)
                                      ELSE results_compute_scaling_summary(exact_df.rows, q)

\* both inputs list their keys in descending order, both summaries have two rows
C10_Witness ==
    /\ UnionAggregated /\ ExactAggregated /\ pc = "merge"
    /\ Len(union_df.rows) = 2 /\ Len(union_stats.rows) = 2
    /\ union_df.rows[1].precision > union_df.rows[2].precision
    /\ Len(exact_df.rows) = 2 /\ Len(exact_stats.rows) = 2
    /\ exact_df.rows[1].num_days > exact_df.rows[2].num_days

\* C11: when plot_experiment_2 is run a second time on the same input files, the
\* comparison table it computes is the one the first run wrote (same rows, same
\* order, same values), and comparison.csv again holds exactly that table.
C11_RerunSameTable ==
    /\ (E2("to_csv") /\ ~comparison_csv.none) => comparison_df = comparison_csv
    /\ (script = "plot_experiment_2" /\ pc \in {"plot1", "plot2", "done"})
         => comparison_csv = comparison_df

\* the second run has computed a table of two rows, one of them degenerate
C11_Witness ==
    /\ E2("to_csv") /\ ~comparison_csv.none
    /\ Len(comparison_df.rows) = 2
    /\ \E i \in DOMAIN comparison_df.rows : ~IsFin(comparison_df.rows[i].speedup_factor)

\* C12: an input without records is no error and gives a summary without rows:
\* the group-by of an empty union_df or exact_df has no groups, and
\* compute_scaling_summary of an empty exact_df returns a table without rows
\* (whatever hll_df holds); the statement after the summarization is reached
\* with no exception raised.
C12_EmptyInputEmptySummary ==
    /\ (script = "plot_experiment_2" /\ ~union_df.none /\ union_df.rows = <<>>
            /\ pc # "union_stats")
         => (union_stats = Frame(<<>>) /\ pc # "raised" /\ raised = {})
    /\ (script = "plot_experiment_2" /\ ~exact_df.none /\ exact_df.rows = <<>>
            /\ pc \notin {"union_stats", "exact_stats"})
         => (exact_stats = Frame(<<>>) /\ pc # "raised" /\ raised = {})
    /\ (script \in ScalingScripts /\ {"exact.csv", "hll.csv"} \subseteq found
            /\ exact_csv = <<>> /\ pc # "main")
         => /\ scaling_df = Frame(<<>>)
            /\ pc = "check" => raised = {}

\* compute_scaling_summary has returned for an exact_df without rows and an
\* hll_df with rows
C12_Witness ==
    /\ Summarised /\ pc = "check"
    /\ exact_df.rows = <<>> /\ hll_df.rows # <<>>
    /\ scaling_df.rows = <<>>

\* the columns a script reads that its input files do not have
MissingFields ==
    IF script = "plot_experiment_2"
    THEN (UnionHeader \ header.union) \cup (ExactHeader \ header.exact)
    ELSE (ScalingExactHeader \ header.exact) \cup (HllHeader \ header.hll)

\* the run was ended by an exception that names a missing column
RaisedNamingMissingField ==
    /\ pc = "raised"
    /\ \E e \in raised : e.type = "KeyError" /\ e.keys # {} /\ e.keys \subseteq MissingFields

\* C13: when an input file lacks a grouping or measured column the script reads,
\* the summarization of that input ends with an exception naming the column and
\* no summary is bound, also when the other input has no records.
C13_MissingFieldRejected ==
    /\ (script = "plot_experiment_2" /\ UnionHeader \ header.union # {}
            /\ pc \notin {"load", "union_stats"})
         => (RaisedNamingMissingField /\ union_stats.none)
    /\ (script = "plot_experiment_2" /\ ExactHeader \ header.exact # {}
            /\ pc \notin {"load", "union_stats", "exact_stats"})
         => (RaisedNamingMissingField /\ exact_stats.none)
    /\ (script \in ScalingScripts /\ MissingFields # {} /\ pc # "main")
         => (RaisedNamingMissingField /\ scaling_df.none)

\* the sum of a column over the rows with these indices, each index once
RECURSIVE SumOver(_, _, _)
SumOver(rows, I, field) ==
    IF I = {} THEN 0
    ELSE LET i == CHOOSE j \in I : TRUE
         IN  rows[i][field] + SumOver(rows, I \ {i}, field)

\* v is the sum of the column over the group divided by the number of members
MeanIs(v, rows, I, field) ==
    /\ IsFin(v)
    /\ v.n * Cardinality(I) = v.d * SumOver(rows, I, field)

\* the indices of the records that form the group of a summary row
UnionGroup(r) ==
    {i \in DOMAIN union_df.rows :
        union_df.rows[i].precision = r.precision /\ union_df.rows[i].num_days = r.num_days}
ExactGroup(r) == {i \in DOMAIN exact_df.rows : exact_df.rows[i].num_days = r.num_days}
SizeGroup(r) == {i \in DOMAIN exact_df.rows : exact_df.rows[i].dataset_size = r.dataset_size}
HllGroup(r, prec) ==
    {i \in DOMAIN hll_df.rows :
        hll_df.rows[i].dataset_size = r.dataset_size /\ hll_df.rows[i].precision = prec}

\* the name of the column row[f'hll_p{prec}_{kind}']
HllName(prec, kind) ==
    CASE prec = 10 /\ kind = "avg_ms" -> "hll_p10_avg_ms"
      [] prec = 10 /\ kind = "error" -> "hll_p10_error"
      [] prec = 10 /\ kind = "storage" -> "hll_p10_storage"
      [] prec = 12 /\ kind = "avg_ms" -> "hll_p12_avg_ms"
      [] prec = 12 /\ kind = "error" -> "hll_p12_error"
      [] prec = 12 /\ kind = "storage" -> "hll_p12_storage"
      [] prec = 14 /\ kind = "avg_ms" -> "hll_p14_avg_ms"
      [] prec = 14 /\ kind = "error" -> "hll_p14_error"
      [] prec = 14 /\ kind = "storage" -> "hll_p14_storage"

\* the values of a column over a group are 10, 20 and 30, once each
IsExample(rows, I, field) ==
    Cardinality(I) = 3 /\ {rows[i][field] : i \in I} = {10, 20, 30}

\* C14: every mean of a summary row (avg_estimate, union_time_ms, exact_count,
\* exact_time_ms, distinct_count, exact_avg_ms, hll_p*_avg_ms, hll_p*_error,
\* hll_p*_storage of a group with records) is the sum of the column over the
\* members of the row's group, each once, divided by their number; a group with
\* the values 10, 20, 30 has the mean 20.
C14_MeanOfGroup ==
    /\ UnionAggregated =>
        \A g \in DOMAIN union_stats.rows :
            LET r == union_stats.rows[g]
            IN  /\ MeanIs(r.avg_estimate, union_df.rows, UnionGroup(r), "estimated_count")
                /\ MeanIs(r.union_time_ms, union_df.rows, UnionGroup(r), "query_time_ms")
                /\ IsExample(union_df.rows, UnionGroup(r), "query_time_ms")
                      => r.union_time_ms = Num(20)
    /\ ExactAggregated =>
        \A g \in DOMAIN exact_stats.rows :
            LET r == exact_stats.rows[g]
            IN  /\ MeanIs(r.exact_count, exact_df.rows, ExactGroup(r), "exact_count")
                /\ MeanIs(r.exact_time_ms, exact_df.rows, ExactGroup(r), "query_time_ms")
                /\ IsExample(exact_df.rows, ExactGroup(r), "exact_count")
                      => r.exact_count = Num(20)
    /\ Summarised =>
        \A g \in DOMAIN scaling_df.rows :
            LET r == scaling_df.rows[g]
            IN  /\ MeanIs(r.distinct_count, exact_df.rows, SizeGroup(r), "distinct_count")
                /\ MeanIs(r.exact_avg_ms, exact_df.rows, SizeGroup(r), "duration_ms")
                /\ \A prec \in {10, 12, 14} :
                      HllGroup(r, prec) # {} =>
                        /\ MeanIs(r[HllName(prec, "avg_ms")], hll_df.rows,
                                  HllGroup(r, prec), "duration_ms")
                        /\ MeanIs(r[HllName(prec, "error")], hll_df.rows,
                                  HllGroup(r, prec), "relative_error")
                        /\ MeanIs(r[HllName(prec, "storage")], hll_df.rows,
                                  HllGroup(r, prec), "storage_bytes")
                        /\ IsExample(hll_df.rows, HllGroup(r, prec), "duration_ms")
                              => r[HllName(prec, "avg_ms")] = Num(20)

\* a group of three union records with the query times 10, 20, 30, the 30 first
\* in the file, summarized to 20
C14_Witness ==
    /\ UnionAggregated
    /\ \E g \in DOMAIN union_stats.rows :
          /\ IsExample(union_df.rows, UnionGroup(union_stats.rows[g]), "query_time_ms")
          /\ union_df.rows[1].query_time_ms = 30
          /\ union_stats.rows[g].union_time_ms = Num(20)

\* the sum over a group of (n * x - sum of the group)^2, n the size of the group
RECURSIVE SumSqDev(_, _, _, _, _)
SumSqDev(rows, I, field, n, total) ==
    IF I = {} THEN 0
    ELSE LET i == CHOOSE j \in I : TRUE
             dev == n * rows[i][field] - total
         IN  dev * dev + SumSqDev(rows, I \ {i}, field, n, total)

\* v is NaN for a group of one record, else the square root of the sum of the
\* squared deviations from the group's mean divided by n - 1
StdIs(v, rows, I, field) ==
    LET n == Cardinality(I)
    IN  IF n = 1 THEN v = NaN
        ELSE v = Sqrt(Fin(SumSqDev(rows, I, field, n, SumOver(rows, I, field)),
                          n * n * (n - 1)))

\* C15: the standard deviation of a summary row (union_stddev_ms,
\* exact_stddev_ms, exact_std_ms) is NaN when the row's group has exactly one
\* record, in every summarization alike, not 0 and without an exception; for a
\* group of two or more records it is the sample (n - 1) standard deviation.
C15_StdOfGroup ==
    /\ UnionAggregated =>
        \A g \in DOMAIN union_stats.rows :
            StdIs(union_stats.rows[g].union_stddev_ms, union_df.rows,
                  UnionGroup(union_stats.rows[g]), "query_time_ms")
    /\ ExactAggregated =>
        \A g \in DOMAIN exact_stats.rows :
            StdIs(exact_stats.rows[g].exact_stddev_ms, exact_df.rows,
                  ExactGroup(exact_stats.rows[g]), "query_time_ms")
    /\ Summarised =>
        \A g \in DOMAIN scaling_df.rows :
            StdIs(scaling_df.rows[g].exact_std_ms, exact_df.rows,
                  SizeGroup(scaling_df.rows[g]), "duration_ms")
    /\ script = "plot_experiment_2" => pc # "raised"
    /\ pc = "check" => raised = {}

\* a union group of one record and the exact group of one record, both NaN,
\* beside a union group of two records with a standard deviation that is not 0
C15_Witness ==
    /\ UnionAggregated /\ ExactAggregated
    /\ Len(exact_df.rows) = 1 /\ exact_stats.rows[1].exact_stddev_ms = NaN
    /\ \E g, h \in DOMAIN union_stats.rows :
          /\ Cardinality(UnionGroup(union_stats.rows[g])) = 1
          /\ union_stats.rows[g].union_stddev_ms = NaN
          /\ Cardinality(UnionGroup(union_stats.rows[h])) = 2
          /\ union_stats.rows[h].union_stddev_ms.k = "sqrt"
          /\ union_stats.rows[h].union_stddev_ms.n > 0

\* C16: a row of compute_scaling_summary's result has the columns
\* hll_p{prec}_avg_ms, hll_p{prec}_error, hll_p{prec}_storage of a precision only
\* when hll_df holds a record with the row's dataset_size and that precision.
C16_NoColumnsForEmptyGroup ==
    Summarised =>
        \A g \in DOMAIN scaling_df.rows : \A prec \in {10, 12, 14} :
            (\E kind \in {"avg_ms", "error", "storage"} :
                HllName(prec, kind) \in DOMAIN scaling_df.rows[g])
              => HllGroup(scaling_df.rows[g], prec) # {}

ExactColumns == {"num_days", "exact_count", "exact_time_ms", "exact_stddev_ms"}

DerivedColumns ==
    {"error_absolute", "error_pct", "speedup_factor", "sketch_size_kb", "efficiency_score"}

\* every row holds the key and the aggregated inputs of one union summary row and
\* of one exact summary row; once derived, it holds the five derived columns too
CarriesKeyAndInputs ==
    /\ Joined =>
        \A i \in DOMAIN comparison_df.rows :
            LET r == comparison_df.rows[i]
            IN  /\ JoinedColumns \subseteq DOMAIN r
                /\ \E u \in DOMAIN union_stats.rows :
                      \A c \in UnionColumns : r[c] = union_stats.rows[u][c]
                /\ \E e \in DOMAIN exact_stats.rows :
                      \A c \in ExactColumns : r[c] = exact_stats.rows[e][c]
    /\ Derived =>
        \A i \in DOMAIN comparison_df.rows :
            DOMAIN comparison_df.rows[i] = JoinedColumns \cup DerivedColumns

\* a statement that assigns to comparison_df after the join keeps the rows and
\* every cell the rows already have
KeepsEarlierColumns ==
    (Joined /\ comparison_df' # comparison_df) =>
        /\ ~comparison_df'.none
        /\ Len(comparison_df'.rows) = Len(comparison_df.rows)
        /\ \A i \in DOMAIN comparison_df.rows :
              \A c \in DOMAIN comparison_df.rows[i] :
                  /\ c \in DOMAIN comparison_df'.rows[i]
                  /\ comparison_df'.rows[i][c] = comparison_df.rows[i][c]

\* C17: every comparison row carries precision, num_days, the seven aggregated
\* inputs with the values of the summary rows it was joined from and, once they
\* are computed, the five derived columns; computing a derived column changes no
\* key, no aggregated input and no derived column computed before.
C17_RowKeepsKeyAndInputs == [](CarriesKeyAndInputs) /\ [][KeepsEarlierColumns]_vars

\* two comparison rows from different exact summary rows, all columns derived
C17_Witness ==
    /\ Derived
    /\ Len(comparison_df.rows) = 2
    /\ comparison_df.rows[1].num_days # comparison_df.rows[2].num_days
    /\ IsFin(comparison_df.rows[1].efficiency_score)

\* the frames hold the records of the files they were read from
FramesAsLoaded ==
    /\ ~union_df.none => union_df = Frame(union_csv)
    /\ ~exact_df.none => exact_df = Frame(exact_csv)
    /\ ~hll_df.none => hll_df = Frame(hll_csv)

\* a frame or summary table that is bound stays as it is
InputsKept ==
    /\ ~union_df.none => union_df' = union_df
    /\ ~exact_df.none => exact_df' = exact_df
    /\ ~hll_df.none => hll_df' = hll_df
    /\ ~union_stats.none => union_stats' = union_stats
    /\ ~exact_stats.none => exact_stats' = exact_stats

\* C18: compute_scaling_summary, the group-by aggregations, the join and the
\* derived-column statements leave their inputs as they were: exact_df, hll_df
\* and union_df hold the records read from the files, and no statement changes
\* a raw frame or a summary table (union_stats, exact_stats) once it is bound.
C18_InputsUnchanged == [](FramesAsLoaded) /\ [][InputsKept]_vars

\* plot_experiment_2 has run to its end on two union and two exact records
C18_Witness ==
    /\ Derived /\ pc = "done"
    /\ Len(union_df.rows) = 2 /\ Len(exact_df.rows) = 2
    /\ Len(union_stats.rows) = 2 /\ comparison_df.rows # <<>>

\* C19: in a comparison row with exact_count = 0 (the denominator of error_pct)
\* efficiency_score is no finite number.
C19_UndefinedErrorPctPropagates ==
    Derived =>
        \A i \in DOMAIN comparison_df.rows :
            comparison_df.rows[i].exact_count = Num(0)
              => ~IsFin(comparison_df.rows[i].efficiency_score)

ScalingColumns ==
    {"dataset_size", "distinct_count", "exact_avg_ms", "exact_std_ms"}
    \cup {HllName(prec, kind) : prec \in {10, 12, 14}, kind \in {"avg_ms", "error", "storage"}}

ExactSizes == {exact_df.rows[i].dataset_size : i \in DOMAIN exact_df.rows}

\* hll_df without the records of a precision other than 10, 12, 14 and without
\* the records of a dataset_size that no record of exact_df has
RelevantHll ==
    SelectSeq(hll_df.rows,
              LAMBDA r : r.precision \in {10, 12, 14} /\ r.dataset_size \in ExactSizes)

\* C20: the result of compute_scaling_summary has exactly one row for every
\* distinct dataset_size of exact_df, in ascending order of dataset_size, each
\* with dataset_size, distinct_count, exact_avg_ms, exact_std_ms and the nine
\* hll_p{10,12,14}_{avg_ms,error,storage} columns and no other; it is the result
\* for hll_df without its records of other precisions and of dataset sizes that
\* exact_df does not have.
C20_ScalingSummaryShape ==
    Summarised =>
        /\ {scaling_df.rows[i].dataset_size : i \in DOMAIN scaling_df.rows} = ExactSizes
        /\ Len(scaling_df.rows) = Cardinality(ExactSizes)
        /\ \A i, j \in DOMAIN scaling_df.rows : i < j =>
              scaling_df.rows[i].dataset_size < scaling_df.rows[j].dataset_size
        /\ \A i \in DOMAIN scaling_df.rows : DOMAIN scaling_df.rows[i] = ScalingColumns
        /\ pc = "check" =>
              scaling_df.rows = IF script = "plot_experiment_1"
                                THEN compute_scaling_summary(exact_df.rows, RelevantHll)
                                ELSE results_compute_scaling_summary(exact_df.rows, RelevantHll)

\* two exact records of one dataset_size give one row; hll_df holds a record of
\* precision 16 and a record of a dataset_size exact_df does not have
C20_Witness ==
    /\ Summarised /\ pc = "check"
    /\ Len(exact_df.rows) = 2 /\ Len(scaling_df.rows) = 1
    /\ \E i, j \in DOMAIN hll_df.rows :
          /\ hll_df.rows[i].precision = 16 /\ hll_df.rows[i].dataset_size \in ExactSizes
          /\ hll_df.rows[j].dataset_size \notin ExactSizes

\* C21: in plot_experiment_2, whatever the input files hold, exact_stats has at
\* most one row for a num_days, so no union summary row has two matches: no two
\* rows of comparison_df have the same (precision, num_days), and comparison_df
\* has at most as many rows as union_stats.
C21_JoinNeverAmbiguous ==
    /\ ExactAggregated =>
        \A i, j \in DOMAIN exact_stats.rows :
            exact_stats.rows[i].num_days = exact_stats.rows[j].num_days => i = j
    /\ (UnionAggregated /\ ExactAggregated) => ~AmbiguousJoin
    /\ Joined =>
        /\ \A i, j \in DOMAIN comparison_df.rows :
              (/\ comparison_df.rows[i].precision = comparison_df.rows[j].precision
               /\ comparison_df.rows[i].num_days = comparison_df.rows[j].num_days) => i = j
        /\ Len(comparison_df.rows) <= Len(union_stats.rows)

\* two exact records of one day with different counts, joined to the union
\* summary row of that day
C21_Witness ==
    /\ Joined
    /\ Len(exact_df.rows) = 2
    /\ exact_df.rows[1].num_days = exact_df.rows[2].num_days
    /\ exact_df.rows[1].exact_count # exact_df.rows[2].exact_count
    /\ Len(comparison_df.rows) = 1

\* C22: compute_scaling_summary of plot_experiment_1 and compute_scaling_summary
\* of plot_results return the same table (same rows, same order, same cells) for
\* the frames either script has loaded, and raise for the same inputs.
C22_SameScalingSummary ==
    (script \in ScalingScripts /\ pc = "check" /\ ~scaling_df.none) =>
        /\ compute_scaling_summary(exact_df.rows, hll_df.rows)
             = results_compute_scaling_summary(exact_df.rows, hll_df.rows)
        /\ scaling_df.rows = compute_scaling_summary(exact_df.rows, hll_df.rows)
        /\ ScalingKeyError(exact_df.rows, header) = ResultsScalingKeyError(exact_df.rows, header)

\* plot_results has summarized two dataset sizes, one with records of precision
\* 10, the other without hll records
C22_Witness ==
    /\ script = "plot_results" /\ pc = "check" /\ ~scaling_df.none
    /\ Len(scaling_df.rows) = 2
    /\ \E i, j \in DOMAIN scaling_df.rows :
          /\ IsFin(scaling_df.rows[i].hll_p10_error)
          /\ IsNaN(scaling_df.rows[j].hll_p10_error)

BothFilesFound == {"exact.csv", "hll.csv"} \subseteq found

\* C23: in plot_experiment_1 and plot_results, load_data binds exact_df, hll_df
\* and scaling_df to three tables or to three None, never a mix; main is at its
\* plot calls only when both input files were loaded, so no plot function is
\* entered with scaling_df (or hll_df) None; when an input file is missing, main
\* ends after the check with exit status 0, no plot function called and no
\* plot written.
C23_PlotsOnlyWithData ==
    script \in ScalingScripts =>
        /\ (exact_df.none <=> hll_df.none) /\ (hll_df.none <=> scaling_df.none)
        /\ pc # "main" => (exact_df.none <=> ~BothFilesFound)
        /\ pc = "plots" =>
              (BothFilesFound /\ ~exact_df.none /\ ~hll_df.none /\ ~scaling_df.none)
        /\ \A i \in 1..Len(Plots(script)) : (pc = "plots" /\ plot_idx = i) =>
              PlotOutcome(Plots(script)[i]) # "skip"
        /\ ~BothFilesFound =>
              /\ pc \in {"main", "check", "done"}
              /\ saved = <<>> /\ plot_idx = 1 /\ raised = {}
              /\ pc = "done" => exit_status = {0}

\* hll.csv is missing and main has returned; nothing was plotted
C23_Witness ==
    /\ script \in ScalingScripts
    /\ found = {"exact.csv"}
    /\ pc = "done" /\ exact_df.none /\ hll_df.none /\ scaling_df.none
    /\ saved = <<>>

Experiment2FilesFound == {"union.csv", "exact.csv"} \subseteq found

Figures == {"hll_union_performance.png", "precision_tradeoffs.png"}

Written == {saved[i] : i \in DOMAIN saved}

\* C24: plot_experiment_2 runs its steps in one order.  A summary is bound only
\* after both frames are loaded, comparison_df only after both summaries are
\* bound, comparison.csv is written only with all five derived columns in the
\* table, and a figure is saved only after comparison.csv, which is the first
\* file written.  When union.csv or exact.csv is missing the script exits with
\* status 1 at the load step: no summary, no comparison.csv, no figure.
C24_StepsInOrder ==
    script = "plot_experiment_2" =>
        /\ (~union_stats.none \/ ~exact_stats.none) => (~union_df.none /\ ~exact_df.none)
        /\ ~exact_stats.none => ~union_stats.none
        /\ ~comparison_df.none => (~union_stats.none /\ ~exact_stats.none)
        /\ "comparison.csv" \in Written =>
              /\ ~comparison_csv.none /\ comparison_csv = comparison_df
              /\ \A i \in DOMAIN comparison_csv.rows :
                    DerivedColumns \subseteq DOMAIN comparison_csv.rows[i]
              /\ pc \in {"plot1", "plot2", "done"}
        /\ "comparison.csv" \notin Written => comparison_csv.none
        /\ Written \cap Figures # {} => (saved # <<>> /\ saved[1] = "comparison.csv")
        /\ "precision_tradeoffs.png" \in Written => "hll_union_performance.png" \in Written
        /\ ~Experiment2FilesFound =>
              /\ pc \in {"load", "exited"}
              /\ pc = "exited" => exit_status = {1}
              /\ union_df.none /\ exact_df.none
              /\ union_stats.none /\ exact_stats.none /\ comparison_df.none
              /\ comparison_csv.none /\ saved = <<>>
        /\ exit_status = {1} => ~Experiment2FilesFound
        /\ pc = "done" =>
              saved = <<"comparison.csv", "hll_union_performance.png", "precision_tradeoffs.png">>

\* a run to the end that wrote a table of two rows and both figures, in order
C24_Witness ==
    /\ script = "plot_experiment_2" /\ pc = "done"
    /\ saved = <<"comparison.csv", "hll_union_performance.png", "precision_tradeoffs.png">>
    /\ Len(comparison_csv.rows) = 2

====
